---- MODULE Spec2Model ----
(***************************************************************************)
(* Model of perceval/backends/bugzillarest.py: the BugzillaREST backend    *)
(* (fetch, fetch_from_cache, __fetch_bugs), the calls it makes on          *)
(* BugzillaRESTClient, and BugzillaRESTCommand (__init__, run).            *)
(*                                                                         *)
(* The generators fetch() and fetch_from_cache() are modelled one step per *)
(* blocking point: a step ends at a network call, at a yield, or when the  *)
(* generator returns or raises.  pc is the position of the generator.      *)
(***************************************************************************)
EXTENDS Integers, Sequences, FiniteSets, TLC

\* ---------------------------------------------------------------- bounds
MaxUpstream == 2   \* number of bugs the server holds
MaxPage     == 2   \* largest max_bugs argument given to the constructor
MaxRuns     == 2   \* generators started in one behaviour

VARIABLES
  upstream,     \* the server's bugs (ids), in change-date order
  maxBugsArg,   \* the max_bugs argument given to BugzillaREST.__init__
  max_bugs,     \* self.max_bugs
  hasCache,     \* self.cache is not None
  parsed_args,  \* BugzillaRESTCommand.parsed_args: no_cache, clean_cache, fetch_cache
  committed,    \* the cache's stored items (CacheLog committed sequence)
  queue,        \* Backend.cache_queue (buffered, uncommitted items)
  backup,       \* the cache's last backup
  pc,           \* position of the running generator / of run()
  mode,         \* "fetch" | "replay" | "none": which generator is running
  via,          \* "lib": driven by a library caller; "cmd": by BugzillaRESTCommand.run
  offset,       \* __fetch_bugs: offset
  data,         \* bugs of the page being processed (data['bugs'] / bugs['bugs'])
  idx,          \* index in data of the bug being processed
  bug,          \* the bug being assembled
  pos,          \* fetch_from_cache: items of cache_items consumed so far
  yielded,      \* bugs yielded by the generator of this run
  calls,        \* RemoteClient calls made in this run
  received,     \* raw responses received in this run (history variable)
  err,          \* the exception raised, "none" when none
  run,          \* number of generators started so far
  base,         \* Len(committed) when this run started (history variable)
  pageStart,    \* Len(received) when the last page request was issued (history)
  stale,        \* Len(queue) when this run started, before the purge (history)
  prev,         \* outcome of the previous run (history variable)
  api_token,    \* BugzillaRESTClient.api_token, "none" for None
  apiTokenArg,  \* the api_token argument given to BugzillaRESTClient.__init__
  credentials,  \* user and password were given to BugzillaRESTClient.__init__
  logins        \* calls of the login resource made so far

vars == <<upstream, maxBugsArg, max_bugs, hasCache, parsed_args, committed, queue,
          backup, pc, mode, via, offset, data, idx, bug, pos, yielded, calls,
          received, err, run, base, pageStart, stale, prev, api_token,
          apiTokenArg, credentials, logins>>

clientVars == <<api_token, apiTokenArg, credentials, logins>>
confVars == <<upstream, maxBugsArg, clientVars>>
genVars  == <<offset, data, idx, bug, pos>>

\* ---------------------------------------------------------------- helpers
Last(s) == s[Len(s)]

IsPrefix(s, t) == Len(s) <= Len(t) /\ SubSeq(t, 1, Len(s)) = s

Min(a, b) == IF a < b THEN a ELSE b

\* ------------------------------------------------- the remote service
\* Wire shapes (read by the decoders below).  key is the bug id the response
\* is keyed by (0: none), body its payload, run the run it was received in.
RawPage(ids, r)     == [kind |-> "page",        key |-> 0, body |-> ids,       run |-> r]
RawComments(b, r)   == [kind |-> "comments",    key |-> b, body |-> <<100 + b>>, run |-> r]
RawHistory(b, r)    == [kind |-> "history",     key |-> 0, body |-> <<200 + b>>, run |-> r]
RawAttachments(b, r) == [kind |-> "attachments", key |-> b, body |-> <<300 + b>>, run |-> r]
RawGarbled(r)       == [kind |-> "garbled",     key |-> 0, body |-> <<>>,      run |-> r]

\* The page the server returns for offset/limit: a window of its bugs.
ServerPage(off, limit) ==
  IF limit <= 0 \/ off >= Len(upstream) THEN <<>>
  ELSE SubSeq(upstream, off + 1, Min(off + limit, Len(upstream)))

\* A call returns the body ("ok"), returns a body that is not the expected
\* JSON ("garbled"), or raises at raise_for_status / on connection ("fail").
Outcomes == {"ok", "garbled", "fail"}

EmptyBug == [id |-> 0, comments |-> <<>>, history |-> <<>>, attachments |-> <<>>]

\* ------------------------------------------------- decoders
\* json.loads(raw)['bugs'] iterated as bug shells with an 'id'
PageOk(raw) == raw.kind = "page"
\* data['bugs'][str(bug_id)]['comments']
CommentsOk(raw, id) == raw.kind = "comments" /\ raw.key = id
\* data['bugs'][0]['history']: positional, the id is not looked at
HistoryOk(raw) == raw.kind = "history"
\* data['bugs'][str(bug_id)]: any mapping keyed by the id is accepted
AttachmentsOk(raw, id) == raw.kind \in {"attachments", "comments"} /\ raw.key = id
\* the value under the id: the list of attachments, or, for a comments
\* response, the mapping {'comments': [...]} (written <<0>> \o body)
AttachmentsVal(raw) == IF raw.kind = "attachments" THEN raw.body ELSE <<0>> \o raw.body

\* ------------------------------------------------- Backend / Cache
PushCacheQueue(q, item) == Append(q, item)
PurgeCacheQueue(q) == <<>>
CacheStore(log, q) == log \o q
CacheRecover(log, bak) == bak

\* ------------------------------------------------- BugzillaREST
ClampMaxBugs_noclamp(m) == m
ClampMaxBugs(m) == IF m > 1 THEN m ELSE 1

PurgeOnFetch_skip(q) == q
PurgeOnFetch(q) == PurgeCacheQueue(q)

NextOffset_skip(off, m) == off + m + 1
NextOffset(off, m) == off + m

\* lines 147, 169, 180, 191: the raw response of a call is pushed to the queue
PushRaw_skipHistory(res, q, raw) ==
  IF res = "history" THEN q ELSE PushCacheQueue(q, raw)
PushRaw(res, q, raw) == PushCacheQueue(q, raw)

\* lines 157-160: after the page the comments, then the history, then the
\* attachments of a bug are fetched, then the bug is yielded
NextSubFetch_historyFirst(p) ==
  CASE p = "reqPage" -> "reqHistory"
    [] p = "reqHistory" -> "reqComments"
    [] p = "reqComments" -> "reqAttachments"
    [] OTHER -> "yielded"
NextSubFetch(p) ==
  CASE p = "reqPage" -> "reqComments"
    [] p = "reqComments" -> "reqHistory"
    [] p = "reqHistory" -> "reqAttachments"
    [] OTHER -> "yielded"

\* line 151: the page that ends the pagination
EmptyPage_shortPage(d) == Len(d) <= 1
EmptyPage(d) == Len(d) = 0

\* line 162 stands after the for loop of line 154: the flush comes when the
\* last bug (i of n) of the page has been yielded and the consumer resumes
FlushAfter_everyBug(i, n) == TRUE
FlushAfter(i, n) == i >= n

NoCacheProvided_never(c) == FALSE
NoCacheProvided(c) == ~c

\* committed log after an exception leaves __fetch_bugs: nothing handles it there
LogOnRaise_flush(log, q) == CacheStore(log, q)
LogOnRaise(log, q) == log

\* the three items fetch_from_cache reads for one bug, in reading order
ReplayTriplet_swapped(items, p) == [cd |-> items[p + 2], hd |-> items[p + 1], ad |-> items[p + 3]]
ReplayTriplet(items, p) == [cd |-> items[p + 1], hd |-> items[p + 2], ad |-> items[p + 3]]

\* line 90: the purge of fetch() empties the queue; the stored log stays
LogOnFetch_clean(log) == <<>>
LogOnFetch(log) == log

\* lines 108-113: fetch_from_cache retrieves the items, the queue is not touched
QueueOnReplay_purge(q) == PurgeCacheQueue(q)
QueueOnReplay(q) == q

\* line 271: __init__ logs in when user and password are given
LoginDue(tok, cred) == cred

\* line 293: the token of the login response replaces the stored one
StoreToken_kept(old, new) == old
StoreToken(old, new) == new

\* lines 368-369: the stored token, when there is one, goes into the query
CallToken_dropped(tok) == "none"
CallToken(tok) == tok

\* except IOError (line 437) catches the output errors and the transport errors
\* (requests.exceptions.RequestException derives from IOError)
IsIOError(e) == e \in {"IOError", "HTTPError"}

Finished ==
  \/ pc \in {"idle", "done", "closed", "failed"}
  \/ pc = "raised" /\ via = "lib"

Outcome == [mode |-> mode, pc |-> pc, yielded |-> yielded, base |-> base,
            cache |-> hasCache]

\* a backend and its client as built without api_token, user and password
InitBackend ==
  /\ upstream \in {[i \in 1..n |-> i] : n \in 0..MaxUpstream}
  /\ maxBugsArg \in (0 - 1)..MaxPage
  /\ max_bugs = ClampMaxBugs(maxBugsArg)
  /\ parsed_args = [no_cache |-> FALSE, clean_cache |-> FALSE, fetch_cache |-> FALSE]
  /\ queue = <<>> /\ backup = <<>>
  /\ mode = "none" /\ via = "lib"
  /\ offset = 0 /\ data = <<>> /\ idx = 0 /\ bug = EmptyBug /\ pos = 0
  /\ yielded = <<>> /\ calls = <<>> /\ received = <<>> /\ err = "none"
  /\ run = 0 /\ base = 0 /\ pageStart = 0 /\ stale = 0
  /\ prev = [mode |-> "none", pc |-> "idle", yielded |-> <<>>, base |-> 0,
             cache |-> FALSE]
  /\ api_token = "none" /\ apiTokenArg = "none" /\ credentials = FALSE
  /\ logins = <<>>

\* the cache argument of __init__: none, or a cache with nothing stored yet
FreshCache == hasCache \in BOOLEAN /\ committed = <<>>

Init == FreshCache /\ InitBackend /\ pc = "idle"

\* ------------------------------------------------- fetch()
\* The body of fetch() up to the first request: purge, then __fetch_bugs starts.
BeginFetch ==
  /\ mode' = "fetch" /\ pc' = "reqPage"
  /\ queue' = PurgeOnFetch(queue)
  /\ stale' = Len(queue)
  /\ offset' = 0 /\ data' = <<>> /\ idx' = 0 /\ bug' = EmptyBug /\ pos' = 0
  /\ yielded' = <<>> /\ calls' = <<>> /\ received' = <<>> /\ err' = "none"
  /\ run' = run + 1 /\ base' = Len(committed) /\ pageStart' = 0
  /\ committed' = LogOnFetch(committed)
  /\ UNCHANGED backup

\* a library caller calls fetch() on the backend and starts iterating
Fetch ==
  /\ Finished /\ run < MaxRuns
  /\ via' = "lib" /\ prev' = Outcome
  /\ BeginFetch
  /\ UNCHANGED <<confVars, max_bugs, hasCache, parsed_args>>

Raise(e) == pc' = "raised" /\ err' = e

\* bookkeeping of one client call with outcome out and raw response raw
Called(res, id, out, raw) ==
  /\ calls' = Append(calls, [res |-> res, id |-> id, offset |-> offset,
                             limit |-> max_bugs, ok |-> out # "fail",
                             token |-> CallToken(api_token)])
  /\ IF out = "fail"
       THEN /\ Raise("HTTPError")
            /\ committed' = LogOnRaise(committed, queue)
            /\ UNCHANGED <<queue, received>>
       ELSE /\ queue' = PushRaw(res, queue, raw)
            /\ received' = Append(received, raw)

\* lines 143-152: self.client.bugs(...), push, json.loads, break on an empty page
RequestPage ==
  /\ mode = "fetch" /\ pc = "reqPage"
  /\ \E out \in Outcomes :
       LET raw == IF out = "ok" THEN RawPage(ServerPage(offset, max_bugs), run)
                  ELSE RawGarbled(run)
       IN /\ Called("bug", 0, out, raw)
          /\ pageStart' = Len(received)
          /\ IF out = "fail" THEN UNCHANGED <<data, idx, bug>>
             ELSE IF ~PageOk(raw)
               THEN /\ Raise("ValueError") /\ committed' = LogOnRaise(committed, queue')
                    /\ UNCHANGED <<data, idx, bug>>
             ELSE IF EmptyPage(raw.body)
               THEN /\ pc' = "done" /\ UNCHANGED <<committed, err, data, idx, bug>>
             ELSE /\ pc' = NextSubFetch("reqPage") /\ data' = raw.body /\ idx' = 1
                  /\ bug' = [EmptyBug EXCEPT !.id = raw.body[1]]
                  /\ UNCHANGED <<committed, err>>
  /\ UNCHANGED <<confVars, max_bugs, hasCache, parsed_args, backup, mode, via,
                 offset, pos, yielded, run, base, stale, prev>>

\* lines 165-174: __fetch_and_parse_comments
RequestComments ==
  /\ mode = "fetch" /\ pc = "reqComments"
  /\ \E out \in Outcomes :
       LET raw == IF out = "ok" THEN RawComments(bug.id, run) ELSE RawGarbled(run)
       IN /\ Called("comment", bug.id, out, raw)
          /\ IF out = "fail" THEN UNCHANGED bug
             ELSE IF ~CommentsOk(raw, bug.id)
               THEN /\ Raise("ValueError") /\ committed' = LogOnRaise(committed, queue')
                    /\ UNCHANGED bug
             ELSE /\ pc' = NextSubFetch("reqComments")
                  /\ bug' = [bug EXCEPT !.comments = raw.body]
                  /\ UNCHANGED <<committed, err>>
  /\ UNCHANGED <<confVars, max_bugs, hasCache, parsed_args, backup, mode, via,
                 offset, data, idx, pos, yielded, run, base, pageStart, stale, prev>>

\* lines 176-185: __fetch_and_parse_history
RequestHistory ==
  /\ mode = "fetch" /\ pc = "reqHistory"
  /\ \E out \in Outcomes :
       LET raw == IF out = "ok" THEN RawHistory(bug.id, run) ELSE RawGarbled(run)
       IN /\ Called("history", bug.id, out, raw)
          /\ IF out = "fail" THEN UNCHANGED bug
             ELSE IF ~HistoryOk(raw)
               THEN /\ Raise("ValueError") /\ committed' = LogOnRaise(committed, queue')
                    /\ UNCHANGED bug
             ELSE /\ pc' = NextSubFetch("reqHistory")
                  /\ bug' = [bug EXCEPT !.history = raw.body]
                  /\ UNCHANGED <<committed, err>>
  /\ UNCHANGED <<confVars, max_bugs, hasCache, parsed_args, backup, mode, via,
                 offset, data, idx, pos, yielded, run, base, pageStart, stale, prev>>

\* lines 187-196 and 160: __fetch_and_parse_attachments, then yield bug
RequestAttachments ==
  /\ mode = "fetch" /\ pc = "reqAttachments"
  /\ \E out \in Outcomes :
       LET raw == IF out = "ok" THEN RawAttachments(bug.id, run) ELSE RawGarbled(run)
           full == [bug EXCEPT !.attachments = AttachmentsVal(raw)]
       IN /\ Called("attachment", bug.id, out, raw)
          /\ IF out = "fail" THEN UNCHANGED <<bug, yielded>>
             ELSE IF ~AttachmentsOk(raw, bug.id)
               THEN /\ Raise("ValueError") /\ committed' = LogOnRaise(committed, queue')
                    /\ UNCHANGED <<bug, yielded>>
             ELSE /\ pc' = NextSubFetch("reqAttachments") /\ bug' = full
                  /\ yielded' = Append(yielded, full)
                  /\ UNCHANGED <<committed, err>>
  /\ UNCHANGED <<confVars, max_bugs, hasCache, parsed_args, backup, mode, via,
                 offset, data, idx, pos, run, base, pageStart, stale, prev>>

\* Backend._flush_cache_queue: store the queue and empty it; nothing without a cache
FlushCacheQueue ==
  IF hasCache
    THEN committed' = CacheStore(committed, queue) /\ queue' = <<>>
    ELSE UNCHANGED <<committed, queue>>

\* the consumer asks for the next bug: the for loop of line 154 goes on, or
\* ends and lines 162-163 flush the queue and advance the offset
FetchResume ==
  /\ mode = "fetch" /\ pc = "yielded"
  /\ IF FlushAfter(idx, Len(data)) THEN FlushCacheQueue
     ELSE UNCHANGED <<committed, queue>>
  /\ IF idx < Len(data)
       THEN /\ idx' = idx + 1 /\ bug' = [EmptyBug EXCEPT !.id = data[idx + 1]]
            /\ pc' = NextSubFetch("reqPage")
            /\ UNCHANGED offset
       ELSE /\ offset' = NextOffset(offset, max_bugs)
            /\ pc' = "reqPage"
            /\ UNCHANGED <<idx, bug>>
  /\ UNCHANGED <<confVars, max_bugs, hasCache, parsed_args, backup, mode, via,
                 data, pos, yielded, calls, received, err, run, base, pageStart,
                 stale, prev>>

\* a library consumer stops iterating and drops the generator
ConsumerStop ==
  /\ pc = "yielded" /\ via = "lib"
  /\ pc' = "closed"
  /\ UNCHANGED <<confVars, max_bugs, hasCache, parsed_args, committed, queue,
                 backup, mode, via, genVars, yielded, calls, received, err, run,
                 base, pageStart, stale, prev>>

\* ------------------------------------------------- fetch_from_cache()
\* lines 108-113: the cache check, then self.cache.retrieve()
BeginReplay ==
  /\ mode' = "replay"
  /\ IF NoCacheProvided(hasCache) THEN Raise("CacheError")
     ELSE pc' = "readPage" /\ err' = "none"
  /\ stale' = Len(queue)
  /\ offset' = 0 /\ data' = <<>> /\ idx' = 0 /\ bug' = EmptyBug /\ pos' = 0
  /\ yielded' = <<>> /\ calls' = <<>> /\ received' = <<>>
  /\ run' = run + 1 /\ base' = Len(committed) /\ pageStart' = 0
  /\ queue' = QueueOnReplay(queue)
  /\ UNCHANGED <<committed, backup>>

\* a library caller calls fetch_from_cache() on the backend and starts iterating
FetchFromCache ==
  /\ Finished /\ run < MaxRuns
  /\ via' = "lib" /\ prev' = Outcome
  /\ BeginReplay
  /\ UNCHANGED <<confVars, max_bugs, hasCache, parsed_args>>

\* lines 115-121: next(cache_items), StopIteration ends the replay; json.loads
ReplayPage ==
  /\ mode = "replay" /\ pc = "readPage"
  /\ IF pos >= Len(committed)
       THEN pc' = "done" /\ UNCHANGED <<err, pos, data, idx, bug>>
       ELSE LET raw == committed[pos + 1]
            IN /\ pos' = pos + 1
               /\ IF ~PageOk(raw)
                    THEN Raise("ValueError") /\ UNCHANGED <<data, idx, bug>>
                  ELSE IF EmptyPage(raw.body)
                    THEN /\ pc' = "readPage" /\ data' = raw.body /\ idx' = 0
                         /\ UNCHANGED <<err, bug>>
                  ELSE /\ pc' = "readBug" /\ data' = raw.body /\ idx' = 1
                       /\ bug' = [EmptyBug EXCEPT !.id = raw.body[1]]
                       /\ UNCHANGED err
  /\ UNCHANGED <<confVars, max_bugs, hasCache, parsed_args, committed, queue,
                 backup, mode, via, offset, yielded, calls, received, run, base,
                 pageStart, stale, prev>>

\* lines 124-134: three more items, decoded and attached to the bug; yield.
\* When the items run out, next() raises StopIteration inside the generator:
\* the generator ends as if complete (Python before 3.7) or raises
\* RuntimeError (PEP 479, Python 3.7 and later).
ReplayBug ==
  /\ mode = "replay" /\ pc = "readBug"
  /\ IF pos + 3 > Len(committed)
       THEN /\ pos' = Len(committed)
            /\ \E silent \in BOOLEAN :
                 IF silent THEN pc' = "done" /\ UNCHANGED err
                 ELSE Raise("RuntimeError")
            /\ UNCHANGED <<bug, yielded>>
       ELSE LET t == ReplayTriplet(committed, pos)
                full == [bug EXCEPT !.comments = t.cd.body,
                                    !.history = t.hd.body,
                                    !.attachments = AttachmentsVal(t.ad)]
            IN /\ pos' = pos + 3
               /\ IF /\ CommentsOk(t.cd, bug.id) /\ HistoryOk(t.hd)
                     /\ AttachmentsOk(t.ad, bug.id)
                    THEN /\ pc' = "yielded" /\ bug' = full
                         /\ yielded' = Append(yielded, full) /\ UNCHANGED err
                    ELSE Raise("KeyError") /\ UNCHANGED <<bug, yielded>>
  /\ UNCHANGED <<confVars, max_bugs, hasCache, parsed_args, committed, queue,
                 backup, mode, via, offset, data, idx, calls, received, run, base,
                 pageStart, stale, prev>>

\* the consumer asks for the next bug: next bug of the page, or next page
ReplayResume ==
  /\ mode = "replay" /\ pc = "yielded"
  /\ IF idx < Len(data)
       THEN /\ idx' = idx + 1 /\ bug' = [EmptyBug EXCEPT !.id = data[idx + 1]]
            /\ pc' = "readBug"
       ELSE pc' = "readPage" /\ UNCHANGED <<idx, bug>>
  /\ UNCHANGED <<confVars, max_bugs, hasCache, parsed_args, committed, queue,
                 backup, mode, via, offset, data, pos, yielded, calls, received,
                 err, run, base, pageStart, stale, prev>>

\* ------------------------------------------------- BugzillaRESTCommand
\* __init__ (lines 383-418): the cache is cleaned or backed up, and a new
\* backend (with an empty cache_queue) is built; no generator exists yet
CommandInit ==
  /\ Finished /\ run < MaxRuns
  /\ \E no_cache \in BOOLEAN, clean_cache \in BOOLEAN, fetch_cache \in BOOLEAN :
       /\ parsed_args' = [no_cache |-> no_cache, clean_cache |-> clean_cache,
                          fetch_cache |-> fetch_cache]
       /\ hasCache' = ~no_cache
       /\ IF no_cache THEN UNCHANGED <<committed, backup>>
          ELSE IF clean_cache THEN committed' = <<>> /\ UNCHANGED backup
          ELSE backup' = committed /\ UNCHANGED committed
  /\ max_bugs' = ClampMaxBugs(maxBugsArg)
  /\ queue' = <<>>
  /\ via' = "cmd" /\ pc' = "constructed" /\ prev' = Outcome
  /\ mode' = "none" /\ err' = "none"
  /\ UNCHANGED <<confVars, genVars, yielded, calls, received, run, base,
                 pageStart, stale>>

\* run() (lines 427-433): the generator is chosen and its iteration starts
CommandRun ==
  /\ pc = "constructed"
  /\ IF parsed_args.fetch_cache THEN BeginReplay ELSE BeginFetch
  /\ UNCHANGED <<confVars, max_bugs, hasCache, parsed_args, via, prev>>

\* lines 434-436: writing a yielded bug to outfile fails
WriteFails ==
  /\ via = "cmd" /\ pc = "yielded"
  /\ Raise("IOError")
  /\ UNCHANGED <<confVars, max_bugs, hasCache, parsed_args, committed, queue,
                 backup, mode, via, genVars, yielded, calls, received, run, base,
                 pageStart, stale, prev>>

\* lines 437-442: the except clauses of run()
RunExcept ==
  /\ via = "cmd" /\ pc = "raised"
  /\ pc' = "failed"
  /\ IF ~IsIOError(err) /\ hasCache
       THEN committed' = CacheRecover(committed, backup)
       ELSE UNCHANGED committed
  /\ UNCHANGED <<confVars, max_bugs, hasCache, parsed_args, queue, backup, mode,
                 via, genVars, yielded, calls, received, err, run, base,
                 pageStart, stale, prev>>

Next ==
  \/ Fetch
  \/ FetchFromCache
  \/ RequestPage
  \/ RequestComments
  \/ RequestHistory
  \/ RequestAttachments
  \/ FetchResume
  \/ ReplayPage
  \/ ReplayBug
  \/ ReplayResume
  \/ ConsumerStop
  \/ CommandInit
  \/ CommandRun
  \/ WriteFails
  \/ RunExcept

Spec == Init /\ [][Next]_vars

\* ------------------------------------------------- BugzillaRESTClient
\* Tokens: the api_token argument and the token the server gives at login
ArgToken == "argTok"
ServerToken == "srvTok"

\* __init__ (lines 267-272): the token is stored, the login is due or not
ClientNew ==
  /\ pc = "new"
  /\ \E tok \in {"none", ArgToken}, cred \in BOOLEAN :
       /\ api_token' = tok /\ apiTokenArg' = tok /\ credentials' = cred
       /\ pc' = IF LoginDue(tok, cred) THEN "login" ELSE "idle"
  /\ UNCHANGED <<upstream, maxBugsArg, logins, max_bugs, hasCache, parsed_args,
                 committed, queue, backup, mode, via, genVars, yielded, calls,
                 received, err, run, base, pageStart, stale, prev>>

\* login (lines 274-293), called by __init__: HTTPError becomes BackendError,
\* the token of the response is stored; an exception ends the construction
Login ==
  /\ pc = "login"
  /\ \E out \in Outcomes :
       /\ logins' = Append(logins, [token |-> CallToken(api_token),
                                    ok |-> out # "fail"])
       /\ IF out = "fail"
            THEN pc' = "initFailed" /\ err' = "BackendError" /\ UNCHANGED api_token
          ELSE IF out = "garbled"
            THEN pc' = "initFailed" /\ err' = "ValueError" /\ UNCHANGED api_token
          ELSE /\ api_token' = StoreToken(api_token, ServerToken)
               /\ pc' = "idle" /\ UNCHANGED err
  /\ UNCHANGED <<upstream, maxBugsArg, apiTokenArg, credentials, max_bugs,
                 hasCache, parsed_args, committed, queue, backup, mode, via,
                 genVars, yielded, calls, received, run, base, pageStart, stale,
                 prev>>

ClientInit == FreshCache /\ InitBackend /\ pc = "new"

ClientNext ==
  \/ ClientNew
  \/ Login
  \/ Fetch
  \/ RequestPage
  \/ RequestComments
  \/ RequestHistory
  \/ RequestAttachments
  \/ FetchResume
  \/ ConsumerStop

\* a client built with any arguments, then used by fetch()
ClientSpec == ClientInit /\ [][ClientNext]_vars

\* a step of the generator of fetch(): a client call returns or raises, or the
\* consumer asks for the next bug
GeneratorStep ==
  \/ RequestPage
  \/ RequestComments
  \/ RequestHistory
  \/ RequestAttachments
  \/ FetchResume

\* every call of the client ends (requests.get blocks until it returns or
\* raises) and the consumer keeps asking for bugs until it stops for good
FairSpec == Spec /\ WF_vars(GeneratorStep)

\* ------------------------------------------------- a cache stored earlier
\* the entries a flush stores for a page of bugs ids received in run r
PageGroup(ids, r) ==
  <<RawPage(ids, r)>> \o
  [i \in 1..(3 * Len(ids)) |->
     LET b == ids[(i + 2) \div 3]
     IN CASE i % 3 = 1 -> RawComments(b, r)
          [] i % 3 = 2 -> RawHistory(b, r)
          [] OTHER -> RawAttachments(b, r)]

\* logs that fetches of an earlier process (run 0) stored: no page, one page
\* of one or two bugs, two pages of one bug
StoredWhole ==
  {<<>>, PageGroup(<<1>>, 0), PageGroup(<<1, 2>>, 0),
   PageGroup(<<1>>, 0) \o PageGroup(<<2>>, 0)}

\* the cache directory is outside the program: of a stored log any number of
\* its last items can be missing when the backend is built on it
StoredLogs == UNION {{SubSeq(l, 1, n) : n \in 0..Len(l)} : l \in StoredWhole}

StoredCache == hasCache = TRUE /\ committed \in StoredLogs

StoredInit == StoredCache /\ InitBackend /\ pc = "idle"

\* a library caller fetches and replays on that cache
StoredNext ==
  \/ Fetch
  \/ FetchFromCache
  \/ RequestPage
  \/ RequestComments
  \/ RequestHistory
  \/ RequestAttachments
  \/ FetchResume
  \/ ReplayPage
  \/ ReplayBug
  \/ ReplayResume
  \/ ConsumerStop

StoredSpec == StoredInit /\ [][StoredNext]_vars

\* ================================================================ claims

\* ids of a sequence of yielded bugs
Ids(bugs) == [i \in DOMAIN bugs |-> bugs[i].id]

\* the page requests among the calls of this run
PageCalls == SelectSeq(calls, LAMBDA c : c.res = "bug")

\* the page responses among the raw responses of this run
PagesReceived == SelectSeq(received, LAMBDA r : r.kind = "page")

RECURSIVE FlattenPages(_)
FlattenPages(pages) ==
  IF pages = <<>> THEN <<>> ELSE pages[1].body \o FlattenPages(Tail(pages))

\* length of the whole page group log starts with, 0 when it starts with none:
\* a page entry, then comments, history, attachments of each of its bugs in
\* order, all received in the same run
GroupLen(log) ==
  IF log = <<>> THEN 0
  ELSE LET ids == log[1].body
           n == 1 + 3 * Len(ids)
           r == log[1].run
       IN IF /\ log[1].kind = "page"
             /\ Len(log) >= n
             /\ \A i \in 1..Len(ids) :
                  /\ log[3 * i - 1] = RawComments(ids[i], r)
                  /\ log[3 * i] = RawHistory(ids[i], r)
                  /\ log[3 * i + 1] = RawAttachments(ids[i], r)
          THEN n ELSE 0

RECURSIVE WellGrouped(_)
WellGrouped(log) ==
  \/ log = <<>>
  \/ /\ GroupLen(log) > 0
     /\ WellGrouped(SubSeq(log, GroupLen(log) + 1, Len(log)))

OneGroup(log) == log # <<>> /\ GroupLen(log) = Len(log)

\* the generator of fetch() is running (not ended)
FetchRunning ==
  mode = "fetch" /\ pc \in {"reqPage", "reqComments", "reqHistory", "reqAttachments", "yielded"}

\* C1 (as stated): after fetch() completes normally on an initially empty
\* cache, the committed log is the exact sequence of all responses received,
\* the final empty page included (length P + 3*sum(ni)).
C1_CommittedEqualsResponses ==
  (mode = "fetch" /\ pc = "done" /\ hasCache /\ base = 0)
    => /\ committed = received
       /\ Len(committed) = Len(PagesReceived) + 3 * Len(yielded)

\* C2: every flush of fetch() commits exactly one whole page group, and the
\* committed log is a concatenation of whole page groups in every state, also
\* after an error or after the consumer stopped.
C2_WholePageGroups ==
  [][/\ WellGrouped(committed')
     /\ (FetchRunning /\ committed' # committed)
          => /\ IsPrefix(committed, committed')
             /\ OneGroup(SubSeq(committed', Len(committed) + 1, Len(committed')))
    ]_vars

\* a fetch has flushed a page of two bugs, and a later page was cut by an error
C2_Witness ==
  /\ mode = "fetch" /\ hasCache /\ pc = "raised"
  /\ Len(committed) >= 7 /\ Len(queue) >= 2

\* C8 (as stated): when fetch() ends on an empty page, the entry of that page
\* has been flushed, and no buffered entry is left.
C8_EmptyPageFlushed ==
  (mode = "fetch" /\ pc = "done" /\ hasCache)
    => queue = <<>> /\ committed # <<>> /\ Last(committed) = Last(received)

\* the previous run was a fetch() that completed normally on a cache that was
\* empty when it started, and the cache was not cleaned since
AfterCompleteFetch ==
  /\ prev.mode = "fetch" /\ prev.pc = "done" /\ prev.base = 0 /\ prev.cache
  /\ hasCache
  /\ via = "cmd" => ~parsed_args.clean_cache

\* C3: fetch_from_cache() run after a fetch() that completed normally on an
\* initially empty cache yields the same bugs as that fetch did: same ids, same
\* order, same comments, history and attachments; it raises no error of its own.
C3_ReplayFidelity ==
  (mode = "replay" /\ AfterCompleteFetch)
    => /\ IsPrefix(yielded, prev.yielded)
       /\ err \in {"none", "IOError"}
       /\ pc = "done" => yielded = prev.yielded

\* a replay has ended after yielding the two bugs the fetch yielded
C3_Witness ==
  /\ mode = "replay" /\ AfterCompleteFetch /\ pc = "done"
  /\ Len(yielded) = 2 /\ yielded = prev.yielded

\* C5: when a RemoteClient call of fetch() fails, the error is raised at once:
\* the failed call is the last call and the only failed one (no further call,
\* no retry), the pages completed before stay committed, no entry of the page in
\* progress is committed, and the entries buffered for it stay in the queue.
C5_TransportErrorAborts ==
  (mode = "fetch" /\ err = "HTTPError" /\ hasCache)
    => /\ pc \in {"raised", "failed"}
       /\ calls # <<>> /\ ~Last(calls).ok
       /\ \A i \in 1..(Len(calls) - 1) : calls[i].ok
       /\ Len(committed) = base + pageStart
       /\ SubSeq(committed, base + 1, Len(committed)) = SubSeq(received, 1, pageStart)
       /\ queue = SubSeq(received, pageStart + 1, Len(received))

\* a sub-request failed in a page that follows a committed page
C5_Witness ==
  /\ mode = "fetch" /\ err = "HTTPError" /\ hasCache
  /\ pageStart > 0 /\ Len(queue) >= 2 /\ Last(calls).res = "history"

\* C6: what a prior run left in the queue is discarded by a new fetch() before
\* it requests or buffers anything, and is never committed: the queue holds only
\* responses of this run, and so does all that this run commits.
C6_PurgeBeforeFetch ==
  mode = "fetch"
    => /\ \A i \in DOMAIN queue : queue[i].run = run
       /\ (pc = "reqPage" /\ calls = <<>>) => queue = <<>>
       /\ pc # "failed" =>
            \A i \in (base + 1)..Len(committed) : committed[i].run = run

\* a fetch that found entries left in the queue has committed a page
C6_Witness ==
  /\ mode = "fetch" /\ stale >= 1 /\ hasCache /\ Len(committed) > base

\* C7 (as stated): whenever run() ends with an error and a cache is configured,
\* the cache has been restored from its last backup.
C7_RecoverOnAnyError ==
  (via = "cmd" /\ pc = "failed" /\ hasCache) => committed = backup

\* C9: fetch_from_cache() of a backend without cache raises CacheError before
\* it yields a bug, reads the cache or calls the client.
C9_NoCacheError ==
  (mode = "replay" /\ ~hasCache)
    => /\ pc \in {"raised", "failed"} /\ err = "CacheError"
       /\ yielded = <<>> /\ calls = <<>> /\ pos = 0

\* a replay without cache has raised
C9_Witness ==
  mode = "replay" /\ ~hasCache /\ pc = "raised" /\ err = "CacheError"

\* C10: built with max_bugs <= 0 the backend behaves as built with max_bugs = 1:
\* every page request has limit 1 and the k-th one (from 0) has offset k.
C10_FloorClamp ==
  maxBugsArg <= 1
    => /\ max_bugs = 1
       /\ \A k \in DOMAIN PageCalls :
            PageCalls[k].limit = 1 /\ PageCalls[k].offset = k - 1

\* a backend built with max_bugs <= 0 has made its third page request
C10_Witness ==
  maxBugsArg <= 0 /\ mode = "fetch" /\ Len(PageCalls) >= 3

\* C4: fetch() with a consumer that keeps asking terminates; when it ends
\* normally the last response is the empty page, every earlier page is not
\* empty, the bugs yielded are those of the pages, in page order and in the
\* order of each page, there are 3 calls for each bug and one for each page,
\* and no call follows the empty page; it ends otherwise only when a call
\* failed or returned a body that does not decode.
C4_FetchTerminates ==
  /\ [](mode = "fetch" /\ pc = "done"
         => /\ Ids(yielded) = FlattenPages(PagesReceived)
            /\ Last(received).kind = "page" /\ Last(received).body = <<>>
            /\ \A i \in 1..(Len(PagesReceived) - 1) : PagesReceived[i].body # <<>>
            /\ Last(calls).res = "bug"
            /\ Len(calls) = Len(PagesReceived) + 3 * Len(yielded))
  /\ [](mode = "fetch" /\ pc = "raised" /\ err # "IOError"
         => ~Last(calls).ok \/ Last(received).kind = "garbled")
  /\ (FetchRunning ~> ~FetchRunning)

\* a fetch over three pages (one bug, one bug, none) has ended normally
C4_Witness ==
  /\ mode = "fetch" /\ pc = "done"
  /\ Len(PagesReceived) = 3 /\ Len(yielded) = 2

\* C11 (as stated): built with an api_token, the client makes no login call
\* and attaches the api_token it was given to every call.
C11_TokenIgnoresCredentials ==
  apiTokenArg # "none"
    => /\ logins = <<>>
       /\ api_token = apiTokenArg
       /\ \A i \in DOMAIN calls : calls[i].token = apiTokenArg

\* C12: a login the server rejects raises BackendError and leaves the stored
\* token as it was; a login that succeeds stores the token of the response, and
\* every later call carries that token.
C12_LoginToken ==
  /\ (logins # <<>> /\ ~Last(logins).ok)
       => /\ pc = "initFailed" /\ err = "BackendError"
          /\ api_token = apiTokenArg
  /\ (logins # <<>> /\ Last(logins).ok /\ pc # "initFailed")
       => /\ api_token = ServerToken
          /\ \A i \in DOMAIN calls : calls[i].token = ServerToken

\* after a login that succeeded, fetch() has made two calls
C12_Witness ==
  /\ logins # <<>> /\ Last(logins).ok /\ api_token = ServerToken
  /\ Len(calls) >= 2 /\ Last(calls).token = ServerToken

\* resource and bug id of each call
ResIds(cs) == [i \in DOMAIN cs |-> <<cs[i].res, cs[i].id>>]

\* the calls that the pages received ask for: for each page its request, then
\* comments, history and attachments of each of its bugs, in the page's order
RECURSIVE SubCalls(_)
SubCalls(ids) ==
  IF ids = <<>> THEN <<>>
  ELSE << <<"comment", ids[1]>>, <<"history", ids[1]>>, <<"attachment", ids[1]>> >>
         \o SubCalls(Tail(ids))

RECURSIVE CallPlan(_)
CallPlan(pages) ==
  IF pages = <<>> THEN <<>>
  ELSE << <<"bug", 0>> >> \o SubCalls(pages[1].body) \o CallPlan(Tail(pages))

\* C13: in fetch() the calls follow the pages: for every bug of a page, in the
\* page's order, comments, then history, then attachments, and the next bug
\* only after them; a call is made only when all earlier ones returned, and
\* the response of the last call is in the queue before it is decoded and
\* before the next call.
C13_SubFetchOrder ==
  mode = "fetch"
    => /\ IsPrefix(ResIds(calls), CallPlan(PagesReceived) \o << <<"bug", 0>> >>)
       /\ \A i \in 1..(Len(calls) - 1) : calls[i].ok
       /\ Len(received) = IF calls # <<>> /\ ~Last(calls).ok
                            THEN Len(calls) - 1 ELSE Len(calls)
       /\ (pc \notin {"reqPage", "failed"} /\ Len(received) > pageStart)
            => queue # <<>> /\ Last(queue) = Last(received)

\* the three calls of the second bug of a page have followed those of the first
C13_Witness ==
  /\ mode = "fetch" /\ pc = "yielded" /\ Len(calls) = 7
  /\ calls[5].res = "comment" /\ calls[5].id = 2 /\ calls[7].res = "attachment"

\* the state in which fetch() is suspended at a yield
AtYield == mode = "fetch" /\ pc = "yielded"

\* C14: when fetch() yields a bug, the last call made is the one for that bug's
\* attachments, the queue holds the page entry and the three entries of every
\* bug of the page up to this one, and none of the page is committed; the page
\* is committed only when the consumer resumes the generator after the page's
\* last bug, and a consumer that stops leaves the page uncommitted.
C14_IncrementalYield ==
  [][/\ AtYield'
          => /\ yielded' # <<>> /\ Last(yielded').id = data'[idx']
             /\ Last(calls').res = "attachment" /\ Last(calls').id = data'[idx']
     /\ (AtYield' /\ hasCache')
          => /\ queue' = SubSeq(received', pageStart' + 1, Len(received'))
             /\ Len(queue') = 1 + 3 * idx'
             /\ queue'[1].kind = "page" /\ queue'[1].body = data'
             /\ queue'[Len(queue') - 2] = RawComments(data'[idx'], run')
             /\ queue'[Len(queue') - 1] = RawHistory(data'[idx'], run')
             /\ queue'[Len(queue')].key = data'[idx']
             /\ Len(committed') = base' + pageStart'
     /\ (FetchRunning /\ committed' # committed)
          => /\ AtYield /\ idx = Len(data) /\ pc' = "reqPage"
             /\ committed' = committed \o queue /\ queue' = <<>>
     /\ (AtYield /\ pc' = "closed") => committed' = committed /\ queue' = queue
    ]_vars

\* the second bug of a page is yielded: seven entries buffered, none committed
C14_Witness ==
  /\ AtYield /\ hasCache /\ idx = 2 /\ Len(queue) = 7
  /\ Len(committed) = base + pageStart

\* C15: the k-th page request of fetch() (k = 0, 1, ...) has offset k*max_bugs
\* and limit max_bugs; when a page request is due, the page before has been
\* flushed; one page request and three sub-requests per bug have been made for
\* every page dealt with.
C15_Pagination ==
  mode = "fetch"
    => /\ \A k \in DOMAIN PageCalls :
            /\ PageCalls[k].offset = (k - 1) * max_bugs
            /\ PageCalls[k].limit = max_bugs
       /\ (pc = "reqPage" /\ hasCache)
            => queue = <<>> /\ Len(committed) = base + Len(received)
       /\ pc \in {"reqPage", "done"}
            => /\ Len(PageCalls) = Len(PagesReceived)
               /\ Len(calls) = Len(PagesReceived) + 3 * Len(FlattenPages(PagesReceived))

\* the third page request of a fetch with pages of one bug
C15_Witness ==
  /\ mode = "fetch" /\ pc = "done" /\ hasCache /\ max_bugs = 1
  /\ Len(PageCalls) = 3 /\ PageCalls[3].offset = 2 /\ Len(calls) = 9

\* the entries the running fetch() has committed
CommittedThisRun == SubSeq(committed, base + 1, Len(committed))

\* C17: in every state of a fetch() run, what the run has committed followed by
\* the queue is the sequence of responses received in the run; the queue holds
\* only responses of the page in progress, its page entry first, and is empty
\* when the next page request is due.
C17_BufferAccounting ==
  (mode = "fetch" /\ hasCache /\ pc # "failed")
    => /\ CommittedThisRun \o queue = received
       /\ queue # <<>>
            => /\ queue = SubSeq(received, pageStart + 1, Len(received))
               /\ queue[1].kind \in {"page", "garbled"}
               /\ \A i \in 2..Len(queue) : queue[i].kind # "page"
               /\ queue[1].kind = "garbled" => Len(queue) = 1
       /\ pc = "reqPage" => queue = <<>>

\* a second page is in progress after the first was flushed
C17_Witness ==
  /\ mode = "fetch" /\ hasCache /\ pc = "reqAttachments"
  /\ Len(CommittedThisRun) = 4 /\ Len(queue) = 3 /\ Len(received) = 7

\* a step of fetch_from_cache(): its start, or a step of its generator
ReplayStep ==
  \/ mode' = "replay" /\ run' = run + 1
  \/ mode = "replay" /\ pc \in {"readPage", "readBug", "yielded"}

\* two replays in a row on the same cache, both ended normally
ReplayTwice ==
  /\ mode = "replay" /\ pc = "done"
  /\ prev.mode = "replay" /\ prev.pc = "done"

\* C18: fetch_from_cache() only reads: each of its steps leaves the committed
\* log and the queue as they were and makes no call of the client; two replays
\* in a row of the same log yield the same bugs.
C18_ReplayReadOnly ==
  [][/\ ReplayStep
          => /\ committed' = committed /\ queue' = queue
             /\ calls' = <<>> /\ received' = <<>>
     /\ ReplayTwice' => yielded' = prev'.yielded
    ]_vars

\* a second replay has yielded again the two bugs of the stored page
C18_Witness ==
  /\ ReplayTwice /\ Len(yielded) = 2 /\ Len(committed) = 7


\* the replay stands where a page entry is expected: no page read yet, an
\* empty page read, or the last bug of the page read has been yielded
AtPageBoundary ==
  \/ data = <<>>
  \/ /\ idx = Len(data) /\ yielded # <<>>
     /\ Last(yielded) = bug /\ bug.id = data[idx]

FetchStep ==
  \/ mode' = "fetch" /\ run' = run + 1
  \/ FetchRunning

\* the page entries of a log
PagesOf(log) == SelectSeq(log, LAMBDA r : r.kind = "page")

\* C19: no step of fetch() removes or changes a committed entry: the log before
\* the step is a prefix of the log after it, and the start of fetch(), purge
\* included, leaves the log as it is; a replay that ends on a log of whole page
\* groups, whatever runs committed them, has yielded the bugs of all its pages
\* in the order of the log.
C19_CommittedMonotone ==
  [][/\ FetchStep => IsPrefix(committed, committed')
     /\ (mode' = "fetch" /\ run' = run + 1) => committed' = committed
     /\ (mode' = "replay" /\ pc' = "done" /\ WellGrouped(committed'))
          => Ids(yielded') = FlattenPages(PagesOf(committed'))
    ]_vars

\* a replay has yielded the bug of a page stored earlier and then the bug of a
\* page that a fetch of this process committed after it
C19_Witness ==
  /\ mode = "replay" /\ pc = "done" /\ WellGrouped(committed)
  /\ Len(committed) = 8 /\ committed[1].run = 0 /\ committed[5].run = 1
  /\ Len(yielded) = 2
====
